---- MODULE Spec2Model ----
(***************************************************************************)
(* Model of link_batch_processor.py: one execution of the Streamlit script *)
(* from the upload of the link file to the download button.  The script is *)
(* single threaded; pc is its position.  Widget values, the uploaded file  *)
(* and the template files on disk are the inputs, fixed by Init.           *)
(***************************************************************************)
EXTENDS Integers, Sequences, FiniteSets, TLC

\* ------------------------------------------------------------------ bounds
MaxRows == 4            \* rows of an uploaded table with nulls / illegal cells
MaxLinks == 20          \* rows of an uploaded table of clean links
MaxBatchSize == 3       \* batch sizes tried, out of 1..max_value
MaxTemplateRows == 2    \* data rows a template sheet may already hold

min_value == 1
max_value == 500

\* ------------------------------------------------------------- cell values
\* A cell value: a string (text identifies it), a string holding a control
\* character that openpyxl refuses ("illegal"), or pandas' NaN ("nan").
Text(s) == [kind |-> "str", text |-> s, row |-> 0]
Link(col, r) == [kind |-> "str", text |-> col, row |-> r]
Illegal(col, r) == [kind |-> "illegal", text |-> col, row |-> r]
NaN == [kind |-> "nan", text |-> "", row |-> 0]

NoColumn == "<None>"

\* ------------------------------------------------------------------ pandas
\* df[c]: the cells of column c; the row kinds say where the nulls are.
Column(df, c) ==
    [r \in 1..Len(df.kinds) |->
        CASE df.kinds[r] = "nan" -> NaN
          [] df.kinds[r] = "illegal" -> Illegal(c, r)
          [] OTHER -> Link(c, r)]

IsLink(v) == v.kind # "nan"

\* Series.dropna().tolist()
dropna(s) == SelectSeq(s, IsLink)

\* `col in df.columns`
InColumns(col, df) == \E k \in 1..Len(df.columns) : df.columns[k] = col

\* --------------------------------------------------------------- templates
find_template_file_names(p) ==
    IF p = "Instagram"
    THEN <<"IG_Influencers_100.xlsx",
           "/mnt/user-data/uploads/1762758236509_IG_Influencers_100.xlsx">>
    ELSE <<"Ven_TT_CVI.xlsx",
           "/mnt/user-data/uploads/1762758161982_Ven_TT_CVI.xlsx">>

find_template_file_sheet(p) ==
    IF p = "Instagram" THEN "category ig" ELSE "category tt"

NoPath == "<None>"

\* for path in possible_names: if os.path.exists(path): return path
FirstExistingBuggy(names, files) ==
    IF \E k \in 1..Len(names) : names[k] \in DOMAIN files
    THEN names[CHOOSE k \in 1..Len(names) :
                 /\ names[k] \in DOMAIN files
                 /\ \A j \in 1..(k - 1) : names[j] \notin DOMAIN files]
    ELSE names[Len(names)]

FirstExisting(names, files) ==
    IF \E k \in 1..Len(names) : names[k] \in DOMAIN files
    THEN names[CHOOSE k \in 1..Len(names) :
                 /\ names[k] \in DOMAIN files
                 /\ \A j \in 1..(k - 1) : names[j] \notin DOMAIN files]
    ELSE NoPath

find_template_file(p, files) ==
    <<FirstExisting(find_template_file_names(p), files), find_template_file_sheet(p)>>

\* ---------------------------------------------------------------- openpyxl
\* A worksheet is its cells: a function from <<row, column>> to a value.
Rows(ws) == {d[1] : d \in DOMAIN ws}
Cols(ws) == {d[2] : d \in DOMAIN ws}
SetMax(S) == CHOOSE m \in S : \A x \in S : x <= m
SetMin(S) == CHOOSE m \in S : \A x \in S : m <= x
IntMax(a, b) == IF a >= b THEN a ELSE b
IntMin(a, b) == IF a <= b THEN a ELSE b

max_row(ws) == IF DOMAIN ws = {} THEN 1 ELSE SetMax(Rows(ws))
min_column(ws) == IF DOMAIN ws = {} THEN 1 ELSE SetMin(Cols(ws))
max_column(ws) == IF DOMAIN ws = {} THEN 1 ELSE SetMax(Cols(ws))

\* Worksheet._move_cells(min_row, offset = -amount, row_or_col = "row")
move_cells(ws, from_row, amount) ==
    LET moved == {<<d[1] - amount, d[2]>> : d \in {e \in DOMAIN ws : e[1] >= from_row}}
        kept == {d \in DOMAIN ws : d[1] < from_row} \ moved
    IN  [d \in kept \cup moved |->
            IF d \in moved THEN ws[<<d[1] + amount, d[2]>>] ELSE ws[d]]

\* Worksheet.delete_rows(idx, amount)
delete_rows(ws, idx, amount) ==
    LET remainder == IntMax(max_row(ws) + 1 - amount, idx)
                       .. IntMin(idx + amount, max_row(ws))
        shifted == move_cells(ws, idx + amount, amount)
        gone == {d \in DOMAIN shifted :
                    /\ d[1] \in remainder
                    /\ d[2] \in min_column(shifted)..max_column(shifted)}
    IN  [d \in DOMAIN shifted \ gone |-> shifted[d]]

\* ws.cell(row, column, value)
cell(ws, row, column, value) ==
    [d \in DOMAIN ws \cup {<<row, column>>} |->
        IF d = <<row, column>> THEN value ELSE ws[d]]

\* openpyxl raises IllegalCharacterError for a string with control characters
Writable(v) == v.kind # "illegal"

\* Clear existing data (keep header)
ClearDataBuggy(ws) ==
    IF max_row(ws) > 1 THEN delete_rows(ws, 2, max_row(ws) - 2) ELSE ws

ClearData(ws) ==
    IF max_row(ws) > 1 THEN delete_rows(ws, 2, max_row(ws) - 1) ELSE ws

\* for row_idx, link in enumerate(batch_links, start=2): ws.cell(row_idx, 1, link)
RECURSIVE InsertLinks(_, _, _)
InsertLinks(ws, batch, k) ==
    IF k > Len(batch) THEN ws
    ELSE InsertLinks(cell(ws, k + 1, 1, batch[k]), batch, k + 1)

AllWritable(batch) == \A k \in 1..Len(batch) : Writable(batch[k])

\* ---------------------------------------------------------------- batching
NumFilesBuggy(total, size) == (total + size) \div size

NumFiles(total, size) == (total + size - 1) \div size

\* start_idx = i * batch_size
StartIdxBuggy(k, size) == k * size + 1

StartIdx(k, size) == k * size

\* end_idx = min((i + 1) * batch_size, total_links)
EndIdxBuggy(k, size, total) == IntMin((k + 1) * size - 1, total)

EndIdx(k, size, total) == IntMin((k + 1) * size, total)

\* links[start:end], Python slice with 0 <= start
Slice(s, start, end) ==
    LET e == IntMin(end, Len(s))
    IN  IF start >= e THEN <<>> ELSE [k \in 1..(e - start) |-> s[start + k]]

\* f"{n:02d}"
Format02d(n) == IF n < 10 THEN "0" \o ToString(n) ELSE ToString(n)

FilenameBuggy(p, k, start, end) ==
    p \o "_Batch_" \o Format02d(k + 1) \o "_Links_" \o ToString(start)
      \o "-" \o ToString(end) \o ".xlsx"

Filename(p, k, start, end) ==
    p \o "_Batch_" \o Format02d(k + 1) \o "_Links_" \o ToString(start + 1)
      \o "-" \o ToString(end) \o ".xlsx"

\* ------------------------------------------------------- column detection
possible_columns ==
    <<"Post link", "post link", "Post Link", "URL", "url", "Link", "link">>

\* for col in possible_columns: if col in df.columns: link_column = col; break
DetectBuggy(df) ==
    IF \E k \in 1..Len(df.columns) :
          \E j \in 1..Len(possible_columns) : df.columns[k] = possible_columns[j]
    THEN df.columns[CHOOSE k \in 1..Len(df.columns) :
            /\ \E j \in 1..Len(possible_columns) : df.columns[k] = possible_columns[j]
            /\ \A m \in 1..(k - 1) :
                  \A j \in 1..Len(possible_columns) : df.columns[m] # possible_columns[j]]
    ELSE NoColumn

Detect(df) ==
    IF \E k \in 1..Len(possible_columns) : InColumns(possible_columns[k], df)
    THEN possible_columns[CHOOSE k \in 1..Len(possible_columns) :
            /\ InColumns(possible_columns[k], df)
            /\ \A j \in 1..(k - 1) : ~InColumns(possible_columns[j], df)]
    ELSE NoColumn

\* st.selectbox(options): the option the user picked (sel >= 1); without a
\* pick the widget returns the option at its default index 0, or None when
\* there are no options.
selectboxBuggy(options, sel) ==
    IF sel >= 1 THEN options[sel] ELSE NoColumn

selectbox(options, sel) ==
    IF sel >= 1 THEN options[sel]
    ELSE IF Len(options) = 0 THEN NoColumn ELSE options[1]

\* ------------------------------------------------------------------ inputs
Platforms == {"Instagram", "TikTok"}
BatchSizes == (min_value..MaxBatchSize) \cup {max_value}

\* Cells of a template's target sheet: a header row (or none) and data rows D.
TemplateSheet(hdr, D) ==
    [d \in (IF hdr THEN {<<1, 1>>, <<1, 2>>} ELSE {}) \cup (D \X {1, 2}) |->
        IF d[1] = 1 THEN Text(IF d[2] = 1 THEN "Link" ELSE "Category")
        ELSE [kind |-> "str", text |-> "template", row |-> d[1]]]

NotesSheet == [d \in {<<1, 1>>, <<3, 1>>} |-> Text("note")]

\* A template file: loadable or not, and its sheets by name.
Workbook(sheet, ws) ==
    [valid |-> TRUE, sheets |-> [n \in {sheet, "Notes"} |-> IF n = sheet THEN ws ELSE NotesSheet]]
CorruptFile == [valid |-> FALSE, sheets |-> [n \in {} |-> NotesSheet]]

TemplatesFor(p) ==
    {CorruptFile, Workbook("Sheet1", TemplateSheet(TRUE, {2}))}
      \cup {Workbook(find_template_file_sheet(p), TemplateSheet(hdr, D)) :
               hdr \in BOOLEAN, D \in SUBSET (2..(MaxTemplateRows + 1))}

FullTemplate(p) ==
    Workbook(find_template_file_sheet(p), TemplateSheet(TRUE, 2..(MaxTemplateRows + 1)))

\* The files on disk: the same template at every location of S.
Disk(S, t) == [path \in S |-> t]
Locations(p) == {find_template_file_names(p)[k] : k \in 1..2}

RECURSIVE KindSeqs(_)
KindSeqs(n) ==
    IF n = 0 THEN {<<>>}
    ELSE KindSeqs(n - 1)
           \cup {Append(s, k) : s \in {t \in KindSeqs(n - 1) : Len(t) = n - 1},
                                k \in {"str", "nan", "illegal"}}

Clean(n) == [r \in 1..n |-> "str"]

Headers == <<"href", "link", "Link", "url", "URL", "Post Link", "post link", "Post link">>
Reverse(s) == [k \in 1..Len(s) |-> s[Len(s) + 1 - k]]
Pick(order, S) == SelectSeq(order, LAMBDA h : h \in S)
HeaderSet == {Headers[k] : k \in 1..Len(Headers)}

ColumnLists ==
    {Pick(Headers, S) : S \in SUBSET HeaderSet}
      \cup {Pick(Reverse(Headers), S) : S \in SUBSET HeaderSet}

Upload(cols, kinds) == <<[parseable |-> TRUE, columns |-> cols, kinds |-> kinds]>>
Unparseable == <<[parseable |-> FALSE, columns |-> <<>>, kinds |-> <<>>]>>

Input(f, p, b, d) == [file |-> f, platform |-> p, batch_size |-> b, files |-> d]

\* every choice of headers, one short table
ColumnInputs ==
    {Input(Upload(c, Clean(2)), "Instagram", 1, Disk(Locations("Instagram"), FullTemplate("Instagram"))) :
        c \in ColumnLists}

\* every template at every set of locations
TemplateInputsFor(p) ==
    {Input(Upload(<<"id", "URL">>, Clean(n)), p, b, Disk(S, t)) :
        n \in 0..MaxRows, b \in BatchSizes,
        S \in SUBSET Locations(p), t \in TemplatesFor(p)}

TemplateInputs == UNION {TemplateInputsFor(p) : p \in Platforms}

\* every table of links, nulls and unwritable strings
TableInputs ==
    {Input(Upload(c, k), "TikTok", b, Disk(Locations("TikTok"), FullTemplate("TikTok"))) :
        c \in {<<"url">>, <<"id", "href">>, <<>>},
        k \in KindSeqs(MaxRows), b \in min_value..MaxBatchSize}

\* long lists of links
LongInputsFor(p) ==
    {Input(Upload(<<"Post link">>, Clean(n)), p, b,
           Disk({find_template_file_names(p)[2]}, FullTemplate(p))) :
        n \in 0..MaxLinks, b \in BatchSizes}

LongInputs == UNION {LongInputsFor(p) : p \in Platforms}

NoUploadInputs ==
    UNION {{Input(f, p, 100, Disk(Locations(p), FullTemplate(p))) :
               f \in {<<>>, Unparseable}} : p \in Platforms}

Inputs == ColumnInputs \cup TemplateInputs \cup TableInputs \cup LongInputs \cup NoUploadInputs

\* ------------------------------------------------------------------- state
VARIABLES
    pc,             \* position of the script
    platform,       \* st.selectbox("Select Platform")
    batch_size,     \* st.number_input("Batch Size")
    uploaded_file,  \* st.file_uploader: <<>> or <<file>>
    files,          \* the template files on disk, by path
    df,             \* the parsed table
    link_column,
    prompted,       \* the column selectbox was shown
    user_selected,  \* the user picked an option of the column selectbox
    links,
    total_links,
    num_files,
    template_path,
    target_sheet,
    i,              \* index of the batch the loop is at
    start_idx,
    end_idx,
    batch_links,
    batches,        \* every batch_links the loop has computed, in order
    wb,             \* <<>> or <<sheets of the workbook loaded for this batch>>
    excel_buffer,   \* <<>> or <<sheets saved for this batch>>
    zip_entries,    \* entries written to zip_file, in order
    download,       \* <<>> or <<entries of the archive behind st.download_button>>
    error           \* <<>> or <<the message shown by st.error>>

widgets == <<platform, batch_size, uploaded_file, files>>
table == <<df, link_column, prompted, user_selected, links, total_links, num_files>>
template == <<template_path, target_sheet>>
batch == <<i, start_idx, end_idx, batch_links, batches>>
output == <<wb, excel_buffer, zip_entries, download>>
vars == <<pc, widgets, table, template, batch, output, error>>

NoTable == [columns |-> <<>>, kinds |-> <<>>]

Init ==
    /\ \E in \in Inputs :
          /\ uploaded_file = in.file
          /\ platform = in.platform
          /\ batch_size = in.batch_size
          /\ files = in.files
    /\ pc = "Idle"
    /\ df = NoTable
    /\ link_column = NoColumn
    /\ prompted = FALSE
    /\ user_selected = FALSE
    /\ links = <<>>
    /\ total_links = 0
    /\ num_files = 0
    /\ template_path = NoPath
    /\ target_sheet = ""
    /\ i = 0
    /\ start_idx = 0
    /\ end_idx = 0
    /\ batch_links = <<>>
    /\ batches = <<>>
    /\ wb = <<>>
    /\ excel_buffer = <<>>
    /\ zip_entries = <<>>
    /\ download = <<>>
    /\ error = <<>>

\* ---------------------------------------------------------------- handlers
\* except Exception as e: st.error(...); st.exception(e)
except_ExceptionBuggy(e) ==
    /\ pc' = "Archived"
    /\ error' = <<"Error processing file: " \o e>>

except_Exception(e) ==
    /\ pc' = "Error"
    /\ error' = <<"Error processing file: " \o e>>

\* else: st.info("Upload a file to get started")
NoUpload ==
    /\ pc = "Idle"
    /\ uploaded_file = <<>>
    /\ pc' = "NoFile"
    /\ UNCHANGED <<widgets, table, template, batch, output, error>>

\* pd.read_csv / pd.read_excel raises
ParseFails ==
    /\ pc = "Idle"
    /\ uploaded_file # <<>>
    /\ ~uploaded_file[1].parseable
    /\ except_Exception("parse")
    /\ UNCHANGED <<widgets, table, template, batch, output>>

\* df = pd.read_csv(uploaded_file) / pd.read_excel(uploaded_file)
LoadFile ==
    /\ pc = "Idle"
    /\ uploaded_file # <<>>
    /\ uploaded_file[1].parseable
    /\ df' = [columns |-> uploaded_file[1].columns, kinds |-> uploaded_file[1].kinds]
    /\ pc' = "Loaded"
    /\ UNCHANGED <<widgets, link_column, prompted, user_selected, links, total_links,
                   num_files, template, batch, output, error>>

\* The column the script goes on with: the detected one, else the selectbox's value.
ChosenColumn(sel) ==
    IF Detect(df) = NoColumn THEN selectbox(df.columns, sel) ELSE Detect(df)

\* Auto-detect link column, extract links, calculate batches
ComputeBatches ==
    /\ pc = "Loaded"
    /\ \E sel \in 0..Len(df.columns) :
          /\ Detect(df) # NoColumn => sel = 0
          /\ ChosenColumn(sel) # NoColumn
          /\ link_column' = ChosenColumn(sel)
          /\ prompted' = (Detect(df) = NoColumn)
          /\ user_selected' = (sel >= 1)
    /\ links' = dropna(Column(df, link_column'))
    /\ total_links' = Len(links')
    /\ num_files' = NumFiles(total_links', batch_size)
    /\ pc' = "BatchesComputed"
    /\ UNCHANGED <<widgets, df, template, batch, output, error>>

\* df[None] raises KeyError: the selectbox had no option to return
NoColumnFails ==
    /\ pc = "Loaded"
    /\ ChosenColumn(0) = NoColumn
    /\ prompted' = TRUE
    /\ except_Exception("KeyError")
    /\ UNCHANGED <<widgets, df, link_column, user_selected, links, total_links,
                   num_files, template, batch, output>>

\* the script ends with the button drawn and not clicked
NotClicked ==
    /\ pc = "BatchesComputed"
    /\ pc' = "Waiting"
    /\ UNCHANGED <<widgets, table, template, batch, output, error>>

\* st.button clicked: find_template_file; st.error and st.stop() when none
TemplateMissing ==
    /\ pc = "BatchesComputed"
    /\ find_template_file(platform, files)[1] = NoPath
    /\ template_path' = NoPath
    /\ target_sheet' = find_template_file(platform, files)[2]
    /\ error' = <<platform \o " template file not found">>
    /\ pc' = "Stopped"
    /\ UNCHANGED <<widgets, table, batch, output>>

\* st.button clicked, template found: the ZIP is opened and the loop entered
Generate ==
    /\ pc = "BatchesComputed"
    /\ find_template_file(platform, files)[1] # NoPath
    /\ template_path' = find_template_file(platform, files)[1]
    /\ target_sheet' = find_template_file(platform, files)[2]
    /\ pc' = "InLoop"
    /\ UNCHANGED <<widgets, table, batch, output, error>>

\* for i in range(num_files): another batch to do
HasNextBuggy == i + 1 < num_files

HasNext == i < num_files

\* Calculate batch
Sliced ==
    /\ start_idx' = StartIdx(i, batch_size)
    /\ end_idx' = EndIdx(i, batch_size, total_links)
    /\ batch_links' = Slice(links, start_idx', end_idx')
    /\ batches' = Append(batches, batch_links')
    /\ UNCHANGED i

Loadable ==
    /\ template_path \in DOMAIN files
    /\ files[template_path].valid

\* wb = load_workbook(template_path); ws = wb[target_sheet]
LoadTemplate ==
    /\ pc = "InLoop"
    /\ HasNext
    /\ Sliced
    /\ Loadable
    /\ target_sheet \in DOMAIN files[template_path].sheets
    /\ wb' = <<files[template_path].sheets>>
    /\ pc' = "TemplateLoaded"
    /\ UNCHANGED <<widgets, table, template, excel_buffer, zip_entries, download, error>>

\* load_workbook raises
LoadFails ==
    /\ pc = "InLoop"
    /\ HasNext
    /\ Sliced
    /\ ~Loadable
    /\ except_Exception("load_workbook")
    /\ UNCHANGED <<widgets, table, template, output>>

\* wb[target_sheet] raises KeyError
SheetMissing ==
    /\ pc = "InLoop"
    /\ HasNext
    /\ Sliced
    /\ Loadable
    /\ target_sheet \notin DOMAIN files[template_path].sheets
    /\ wb' = <<files[template_path].sheets>>
    /\ except_Exception("KeyError")
    /\ UNCHANGED <<widgets, table, template, excel_buffer, zip_entries, download>>

\* Clear existing data (keep header)
ClearRows ==
    /\ pc = "TemplateLoaded"
    /\ wb' = <<[wb[1] EXCEPT ![target_sheet] = ClearData(@)]>>
    /\ pc' = "RowsCleared"
    /\ UNCHANGED <<widgets, table, template, batch, excel_buffer, zip_entries,
                   download, error>>

\* Insert new links
WriteRows ==
    /\ pc = "RowsCleared"
    /\ AllWritable(batch_links)
    /\ wb' = <<[wb[1] EXCEPT ![target_sheet] = InsertLinks(@, batch_links, 1)]>>
    /\ pc' = "RowsWritten"
    /\ UNCHANGED <<widgets, table, template, batch, excel_buffer, zip_entries,
                   download, error>>

\* The links before the first one ws.cell refuses
WritablePrefix(s) ==
    SubSeq(s, 1, SetMin({k \in 1..Len(s) : ~Writable(s[k])}) - 1)

\* ws.cell raises IllegalCharacterError at the first unwritable link
WriteFails ==
    /\ pc = "RowsCleared"
    /\ ~AllWritable(batch_links)
    /\ wb' = <<[wb[1] EXCEPT ![target_sheet] =
                   InsertLinks(@, WritablePrefix(batch_links), 1)]>>
    /\ except_Exception("IllegalCharacterError")
    /\ UNCHANGED <<widgets, table, template, batch, excel_buffer, zip_entries, download>>

\* wb.save(excel_buffer)
Serialize ==
    /\ pc = "RowsWritten"
    /\ excel_buffer' = <<wb[1]>>
    /\ pc' = "Serialized"
    /\ UNCHANGED <<widgets, table, template, batch, wb, zip_entries, download, error>>

\* wb.save raises
SerializeFails ==
    /\ pc = "RowsWritten"
    /\ except_Exception("save")
    /\ UNCHANGED <<widgets, table, template, batch, output>>

\* zip_file.writestr(filename, excel_buffer.getvalue()); next i
AddToZip ==
    /\ pc = "Serialized"
    /\ zip_entries' = Append(zip_entries,
          [filename |-> Filename(platform, i, start_idx, end_idx),
           data |-> excel_buffer[1]])
    /\ i' = i + 1
    /\ pc' = "InLoop"
    /\ UNCHANGED <<widgets, table, template, start_idx, end_idx, batch_links, batches,
                   wb, excel_buffer, download, error>>

\* zip_file.writestr raises
AddToZipFails ==
    /\ pc = "Serialized"
    /\ except_Exception("writestr")
    /\ UNCHANGED <<widgets, table, template, batch, output>>

\* the loop is over and the with block closes the ZIP
CloseZip ==
    /\ pc = "InLoop"
    /\ ~HasNext
    /\ pc' = "Archived"
    /\ UNCHANGED <<widgets, table, template, batch, output, error>>

\* st.download_button(data = zip_buffer)
OfferDownload ==
    /\ pc = "Archived"
    /\ download' = <<zip_entries>>
    /\ pc' = "Done"
    /\ UNCHANGED <<widgets, table, template, batch, wb, excel_buffer, zip_entries, error>>

Next ==
    \/ NoUpload
    \/ ParseFails
    \/ LoadFile
    \/ ComputeBatches
    \/ NoColumnFails
    \/ NotClicked
    \/ TemplateMissing
    \/ Generate
    \/ LoadTemplate
    \/ LoadFails
    \/ SheetMissing
    \/ ClearRows
    \/ WriteRows
    \/ WriteFails
    \/ Serialize
    \/ SerializeFails
    \/ AddToZip
    \/ AddToZipFails
    \/ CloseZip
    \/ OfferDownload

Spec == Init /\ [][Next]_vars

\* ------------------------------------------------------------------ claims
RECURSIVE Flatten(_)
Flatten(ss) == IF ss = <<>> THEN <<>> ELSE Head(ss) \o Flatten(Tail(ss))

RECURSIVE TotalLen(_, _)
TotalLen(ss, k) == IF k = 0 THEN 0 ELSE TotalLen(ss, k - 1) + Len(ss[k])

Finished == pc \in {"Archived", "Done"}

\* C1: the batches computed so far, concatenated in index order, are a prefix
\* of the link list, and once the loop is over they are the whole link list:
\* nothing reordered, duplicated or omitted, their lengths summing to N.
C1_BatchesPartitionLinks ==
    /\ Len(Flatten(batches)) <= Len(links)
    /\ Flatten(batches) = SubSeq(links, 1, Len(Flatten(batches)))
    /\ Finished => /\ Flatten(batches) = links
                   /\ TotalLen(batches, Len(batches)) = total_links
                   /\ Len(batches) = num_files

C1_Witness ==
    /\ pc = "Done"
    /\ Len(batches) >= 3
    /\ Len(batches[Len(batches)]) < batch_size

\* C2: num_files is the ceiling of total_links / batch_size: the least k with
\* k * batch_size >= total_links; zero for an empty link list.
C2_NumFilesIsCeiling ==
    /\ total_links = Len(links)
    /\ num_files >= 0
    /\ num_files * batch_size >= total_links
    /\ (num_files - 1) * batch_size < total_links
    /\ total_links = 0 => num_files = 0

C2_Witness ==
    /\ pc = "BatchesComputed"
    /\ num_files >= 2
    /\ total_links % batch_size = 0

\* C3: every batch but the last has exactly batch_size links; the last one has
\* between 1 and batch_size; no batch is empty.
C3_BatchSizes ==
    /\ Len(batches) <= num_files
    /\ \A k \in 1..Len(batches) :
          /\ k < num_files => Len(batches[k]) = batch_size
          /\ k = num_files => Len(batches[k]) \in 1..batch_size

C3_Witness ==
    /\ pc = "Done"
    /\ Len(batches) >= 2
    /\ Len(batches[Len(batches)]) \in 1..(batch_size - 1)

Digits == <<"0", "1", "2", "3", "4", "5", "6", "7", "8", "9">>
RECURSIVE Decimal(_)
Decimal(n) ==
    IF n < 10 THEN Digits[n + 1] ELSE Decimal(n \div 10) \o Digits[(n % 10) + 1]

\* {platform}_Batch_{k, at least 2 digits}_Links_{first}-{last}.xlsx
EntryName(p, k, first, last) ==
    p \o "_Batch_" \o (IF k < 10 THEN "0" ELSE "") \o Decimal(k)
      \o "_Links_" \o Decimal(first) \o "-" \o Decimal(last) \o ".xlsx"

\* C4: the k-th archive entry is named after the platform, k and the 1-based
\* offsets of the k-th batch in the link list; entry names are pairwise
\* distinct; a run that completes has exactly num_files entries, and those
\* are the archive offered for download.
C4_ArchiveEntries ==
    /\ Len(zip_entries) <= Len(batches)
    /\ \A k \in 1..Len(zip_entries) :
          zip_entries[k].filename =
             EntryName(platform, k, TotalLen(batches, k - 1) + 1, TotalLen(batches, k))
    /\ \A j, k \in 1..Len(zip_entries) :
          j # k => zip_entries[j].filename # zip_entries[k].filename
    /\ Finished => Len(zip_entries) = num_files
    /\ pc = "Done" => download = <<zip_entries>>
    /\ total_links = 0 /\ Finished => zip_entries = <<>>

C4_Witness ==
    /\ pc = "Done"
    /\ Len(zip_entries) >= 10
    /\ batch_size >= 2

HeaderCells(ws) == {d \in DOMAIN ws : d[1] = 1}
DataCells(ws) == {d \in DOMAIN ws : d[1] >= 2}

\* The target sheet of a saved document holds the template's row 1 and, from
\* row 2 on, the links of batch b in column 1 and nothing else.
FilledFrom(doc, tmpl, b) ==
    /\ HeaderCells(doc) = HeaderCells(tmpl)
    /\ \A d \in HeaderCells(doc) : doc[d] = tmpl[d]
    /\ DataCells(doc) = {<<r + 1, 1>> : r \in 1..Len(b)}
    /\ \A r \in 1..Len(b) : doc[<<r + 1, 1>>] = b[r]

TemplateOnDisk == files[template_path].sheets[target_sheet]

\* C5: every document saved or archived has, in its target sheet, row 1 as in
\* the template and rows 2.. holding exactly its own batch's links in order.
C5_DocumentHoldsItsBatch ==
    /\ \A k \in 1..Len(zip_entries) :
          FilledFrom(zip_entries[k].data[target_sheet], TemplateOnDisk, batches[k])
    /\ pc = "Serialized" =>
          FilledFrom(excel_buffer[1][target_sheet], TemplateOnDisk, batch_links)

C5_Witness ==
    /\ pc = "Done"
    /\ Len(zip_entries) >= 2
    /\ max_row(TemplateOnDisk) > batch_size + 1
    /\ HeaderCells(TemplateOnDisk) # {}

Aborted == pc \in {"Error", "Stopped"}

\* C6: once an error has been reported the run is over and no archive is
\* offered; an archive is offered only when no batch failed to load, fill,
\* serialize or be added.
C6_NoPartialArchive ==
    /\ error # <<>> => Aborted /\ download = <<>>
    /\ pc = "Error" => error # <<>>
    /\ download # <<>> =>
          /\ error = <<>>
          /\ Loadable \/ num_files = 0
          /\ \A k \in 1..Len(links) : Writable(links[k])

C6_Witness ==
    /\ pc = "Error"
    /\ Len(zip_entries) >= 1
    /\ download = <<>>

Unparsed == uploaded_file # <<>> /\ ~uploaded_file[1].parseable
NoTemplateAnywhere ==
    \A k \in 1..Len(find_template_file_names(platform)) :
        find_template_file_names(platform)[k] \notin DOMAIN files

\* C7: with an unparseable upload, or no template file at any known location,
\* the run never reaches a batch: no slice, no workbook, no archive entry, no
\* download; it ends with an error message.
C7_UpstreamFailureAborts ==
    (Unparsed \/ NoTemplateAnywhere) =>
        /\ pc \in {"Idle", "NoFile", "Loaded", "BatchesComputed", "Waiting",
                   "Error", "Stopped"}
        /\ batches = <<>> /\ wb = <<>> /\ excel_buffer = <<>>
        /\ zip_entries = <<>> /\ download = <<>>
        /\ Aborted => error # <<>>
        /\ Unparsed => pc \in {"Idle", "Error"}

C7_Witness ==
    /\ pc = "Stopped"
    /\ NoTemplateAnywhere
    /\ total_links > 0
    /\ error # <<>>

Generating ==
    pc \in {"InLoop", "TemplateLoaded", "RowsCleared", "RowsWritten", "Serialized",
            "Archived", "Done"}

\* C8 as claimed: with the selectbox shown and no selection made, no links
\* are extracted and generation is not started.
C8_BlockedUntilSelection ==
    (prompted /\ ~user_selected) => links = <<>> /\ ~Generating

\* C8 amended: with the selectbox shown and no selection made, the script
\* goes on with the table's first column: the links are that column's
\* non-null cells; only a table without columns stops the run, with an error.
C8_FirstColumnByDefault ==
    (prompted /\ ~user_selected) =>
        IF df.columns = <<>>
        THEN pc = "Error" /\ links = <<>>
        ELSE /\ link_column = df.columns[1]
             /\ links = SelectSeq(Column(df, df.columns[1]), LAMBDA v : v.kind # "nan")

C8_Witness ==
    /\ prompted /\ ~user_selected
    /\ pc = "Done"
    /\ Len(links) >= 2
    /\ Len(df.columns) >= 2

Recognised == {possible_columns[k] : k \in 1..Len(possible_columns)}
PresentHeaders == {df.columns[k] : k \in 1..Len(df.columns)}
Priority(h) == CHOOSE k \in 1..Len(possible_columns) : possible_columns[k] = h

\* C9: once the column is settled, it was prompted for exactly when no
\* recognised header is among the columns; otherwise it is the recognised
\* header present that comes first in the priority list, taken unprompted.
C9_FirstPriorityHeader ==
    pc \notin {"Idle", "NoFile", "Loaded"} /\ ~Unparsed =>
        /\ prompted <=> (Recognised \cap PresentHeaders = {})
        /\ ~prompted =>
              /\ ~user_selected
              /\ link_column \in Recognised \cap PresentHeaders
              /\ \A h \in Recognised \cap PresentHeaders :
                    Priority(link_column) <= Priority(h)

C9_Witness ==
    /\ pc = "BatchesComputed"
    /\ ~prompted
    /\ link_column = "URL"
    /\ df.columns[1] = "link"

\* Position of a stage in the pipeline, for batch k of n.
Rank(p, k, n) ==
    CASE p = "Idle" -> 0
      [] p = "Loaded" -> 1
      [] p = "BatchesComputed" -> 2
      [] p = "InLoop" -> 3 + 5 * k
      [] p = "TemplateLoaded" -> 4 + 5 * k
      [] p = "RowsCleared" -> 5 + 5 * k
      [] p = "RowsWritten" -> 6 + 5 * k
      [] p = "Serialized" -> 7 + 5 * k
      [] p = "Archived" -> 4 + 5 * n
      [] p = "Done" -> 5 + 5 * n
      [] OTHER -> -1

Ended == {"NoFile", "Waiting", "Error", "Stopped"}

C10_Step ==
    /\ pc \notin Ended \cup {"Done"}
    /\ pc' \in Ended \/ Rank(pc', i', num_files') = Rank(pc, i, num_files) + 1
    /\ i' # i => i' = i + 1 /\ pc = "Serialized"
    /\ pc' = "TemplateLoaded" => Len(zip_entries) = i /\ Len(batches) = i
    /\ Len(zip_entries') = i'
    /\ download' # <<>> => pc' = "Done" /\ Len(zip_entries') = num_files'

\* C10: every step moves to the next stage of the pipeline or ends the run;
\* batch i + 1 is loaded only after batch i was added to the archive; the
\* download is offered only at Done, with all num_files entries in it.
C10_LinearPipeline == [][C10_Step]_vars

C10_Witness ==
    /\ pc = "Done"
    /\ num_files >= 3
    /\ download # <<>>

====
